---- MODULE Spec2Model ----
(***************************************************************************)
(* A model of the finance bot: the transaction-entry dialogue of bot.py    *)
(* (FinanceBotHandlers) over the data-access layer of database.py          *)
(* (DatabaseManager).                                                      *)
(*                                                                         *)
(* Python dicts are functions whose domain is the set of keys present, so  *)
(* `k in d`, `d[k]` (KeyError when absent), `d.get(k, default)` and        *)
(* `del d[k]` are modelled as they behave.                                 *)
(***************************************************************************)
EXTENDS Integers, Sequences, FiniteSets, TLC

VARIABLES
    user_states,   \* FinanceBotHandlers.user_states: user id -> state dict
    db_manager,    \* FinanceBotHandlers.db_manager: "None" or "DatabaseManager"
    connection,    \* DatabaseManager.connection: "None" or "Connection"
    db,            \* the committed content of the four tables
    buttons,       \* per chat, the inline buttons the bot has sent so far
    lastOp,        \* the handler that ran last, its input, reply and exception
    workers,       \* the worker threads: the handler each runs and where it is
    dalOp,         \* the DatabaseManager operation called last and its connects
    now,           \* the clock (datetime.now() and the store's NOW()), in days
    inflight       \* the transaction open on the shared connection

vars == <<user_states, db_manager, connection, db, buttons, lastOp, workers,
          dalOp, now, inflight>>

(***************************************************************************)
(* Bounds and input sets.                                                  *)
(***************************************************************************)
\* The transactions table holds at most MaxTx rows in a run.
MaxTx == 1

Users == {1, 2}
\* The users whose updates are delivered in the dialogue specification.
Actors == {1}

\* Message texts, as sequences of characters.
Texts == { <<"5">>, <<"-", "5">>, <<"0">>, <<"a", "b">> }

None == "None"
NoData == <<>>

(***************************************************************************)
(* Python helpers.                                                         *)
(***************************************************************************)
EmptyDict == [k \in {} |-> None]

DictSet(d, k, v) == [x \in (DOMAIN d) \cup {k} |-> IF x = k THEN v ELSE d[x]]

DictDel(d, k) == [x \in (DOMAIN d) \ {k} |-> d[x]]

DictGet(d, k, default) == IF k \in DOMAIN d THEN d[k] ELSE default

Digits == [c \in {"0", "1", "2", "3", "4", "5", "6", "7", "8", "9"} |->
             CASE c = "0" -> 0 [] c = "1" -> 1 [] c = "2" -> 2 [] c = "3" -> 3
               [] c = "4" -> 4 [] c = "5" -> 5 [] c = "6" -> 6 [] c = "7" -> 7
               [] c = "8" -> 8 [] c = "9" -> 9]

RECURSIVE DigitsValue(_)
DigitsValue(s) ==
    IF s = <<>> THEN 0
    ELSE 10 * DigitsValue(SubSeq(s, 1, Len(s) - 1)) + Digits[s[Len(s)]]

IsDigits(s) == Len(s) > 0 /\ \A i \in 1..Len(s) : s[i] \in DOMAIN Digits

\* float(text) on the integer literals: an optional sign and digits give the
\* number, anything else raises ValueError.
ParseFloat(text) ==
    IF IsDigits(text) THEN [ok |-> TRUE, value |-> DigitsValue(text)]
    ELSE IF Len(text) > 1 /\ text[1] \in {"-", "+"} /\ IsDigits(Tail(text))
         THEN [ok |-> TRUE,
               value |-> IF text[1] = "-" THEN 0 - DigitsValue(Tail(text))
                         ELSE DigitsValue(Tail(text))]
         ELSE [ok |-> FALSE, value |-> 0]

(***************************************************************************)
(* The schema (create_tables) and the store's committed content.           *)
(*   users(user_id PRIMARY KEY, name, currency)                            *)
(*   transactions(id SERIAL, user_id REFERENCES users, type, amount,       *)
(*                category, description, date): a row's id is its position *)
(*   categories(id SERIAL, name, type, user_id NULL)                       *)
(*   budgets(id SERIAL, user_id, category, limit_amount, period)           *)
(***************************************************************************)
\* A nullable column holds the set of its value: {} is NULL, and a
\* comparison with NULL is never true.
Null == {}

NotNull(v) == {v}

SqlEq(column, v) == v \in column

UserRow(user_id, name, currency) ==
    [user_id |-> user_id, name |-> name, currency |-> currency]

TransactionRow(user_id, type, amount, category, description, date) ==
    [user_id |-> user_id, type |-> type, amount |-> amount,
     category |-> category, description |-> description, date |-> date]

CategoryRow(id, name, type, user_id) ==
    [id |-> id, name |-> name, type |-> type, user_id |-> user_id]

BudgetRow(user_id, category, limit_amount, period) ==
    [user_id |-> user_id, category |-> category,
     limit_amount |-> limit_amount, period |-> period]

\* The categories present in the store: one owned by each user and a global one.
SeedCategories ==
    << CategoryRow(1, "Food", "expense", NotNull(1)),
       CategoryRow(2, "Salary", "income", Null),
       CategoryRow(3, "Taxi", "expense", NotNull(2)) >>

\* The alphabetical order of the category names, for ORDER BY name.
NameOrder == << "Food", "Salary", "Taxi" >>

NameRank(name) == CHOOSE i \in 1..Len(NameOrder) : NameOrder[i] = name

\* str(id) of a category id, as it appears in callback data.
Str(id) == CASE id = 1 -> "1" [] id = 2 -> "2" [] id = 3 -> "3"

EmptyDb ==
    [users |-> {}, transactions |-> <<>>, categories |-> SeedCategories,
     budgets |-> <<>>]

(***************************************************************************)
(* DatabaseManager: the low-level operations.  The store's behaviour       *)
(* during one call is the call's environment env:                          *)
(*   env.probe    whether check_connection's SELECT 1 succeeds             *)
(*   env.connect  what pg8000.connect does: "ok", raise OperationalError,  *)
(*                or raise another exception ("Error")                     *)
(*   env.stmt     what cursor.execute/commit do: "ok", raise               *)
(*                DatabaseError, or raise another exception ("Error")      *)
(*   env.rollback what connection.rollback does after a DatabaseError:     *)
(*                "ok" or raise an exception ("Error")                     *)
(* Each operation gives the new connection, the new committed content,     *)
(* the value returned, the number of connect() calls it made and the       *)
(* exception that escaped it (None when it returned).                      *)
(* An outcome that the call never consults is fixed to "ok": connect is    *)
(* not called after a successful probe, no statement runs after a failed   *)
(* connect, and rollback is called only after a DatabaseError.             *)
(***************************************************************************)
Envs ==
    {e \in [probe : BOOLEAN,
            connect : {"ok", "OperationalError", "Error"},
            stmt : {"ok", "DatabaseError", "Error"},
            rollback : {"ok", "Error"}] :
        /\ e.probe => e.connect = "ok"
        /\ e.connect # "ok" => e.stmt = "ok"
        /\ e.stmt # "DatabaseError" => e.rollback = "ok"}

\* connect(): the handle is assigned only when pg8000.connect returns.
connect(conn, env) ==
    CASE env.connect = "ok" ->
            [connection |-> "Connection", ret |-> TRUE, raised |-> None]
      [] env.connect = "OperationalError" ->
            [connection |-> conn, ret |-> FALSE, raised |-> None]
      [] OTHER ->
            [connection |-> conn, ret |-> FALSE, raised |-> env.connect]

check_connection(conn, env) == conn # None /\ env.probe

\* The reconnect prelude shared by execute_query, execute_insert and
\* execute_update: go tells whether the statement is attempted.
Reconnect(conn, env) ==
    IF conn = None \/ ~check_connection(conn, env)
    THEN LET c == connect(conn, env) IN
         [connection |-> c.connection, go |-> c.ret, connects |-> 1,
          raised |-> c.raised]
    ELSE [connection |-> conn, go |-> TRUE, connects |-> 0, raised |-> None]

\* execute_query: rows is what the SELECT yields on the committed content.
execute_query(conn, d, rows, env) ==
    LET p == Reconnect(conn, env) IN
    IF p.raised # None \/ ~p.go
    THEN [connection |-> p.connection, db |-> d, ret |-> <<>>,
          connects |-> p.connects, raised |-> p.raised]
    ELSE CASE env.stmt = "ok" ->
                [connection |-> p.connection, db |-> d, ret |-> rows,
                 connects |-> p.connects, raised |-> None]
           [] env.stmt = "DatabaseError" ->
                [connection |-> p.connection, db |-> d, ret |-> <<>>,
                 connects |-> p.connects, raised |-> None]
           [] OTHER ->
                [connection |-> p.connection, db |-> d, ret |-> <<>>,
                 connects |-> p.connects, raised |-> env.stmt]

\* An execute_insert without the rollback: the failed statement's row stays.
execute_insert_dirty(conn, d, newdb, violates, env) ==
    LET p == Reconnect(conn, env) IN
    IF p.raised # None \/ ~p.go
    THEN [connection |-> p.connection, db |-> d, ret |-> FALSE,
          connects |-> p.connects, raised |-> p.raised]
    ELSE CASE env.stmt = "ok" /\ ~violates ->
                [connection |-> p.connection, db |-> newdb, ret |-> TRUE,
                 connects |-> p.connects, raised |-> None]
           [] OTHER ->
                [connection |-> p.connection, db |-> newdb, ret |-> FALSE,
                 connects |-> p.connects, raised |-> None]

\* execute_insert: newdb is the content after the INSERT, violates tells
\* whether the row breaks a constraint (the server answers with an error,
\* which pg8000 raises as a DatabaseError).  The rollback in the except
\* clause is not guarded.
execute_insert(conn, d, newdb, violates, env) ==
    LET p == Reconnect(conn, env) IN
    IF p.raised # None \/ ~p.go
    THEN [connection |-> p.connection, db |-> d, ret |-> FALSE,
          connects |-> p.connects, raised |-> p.raised]
    ELSE CASE env.stmt = "ok" /\ ~violates ->
                [connection |-> p.connection, db |-> newdb, ret |-> TRUE,
                 connects |-> p.connects, raised |-> None]
           [] env.stmt = "DatabaseError" \/ (env.stmt = "ok" /\ violates) ->
                [connection |-> p.connection, db |-> d, ret |-> FALSE,
                 connects |-> p.connects,
                 raised |-> IF env.rollback = "ok" THEN None
                            ELSE env.rollback]
           [] OTHER ->
                [connection |-> p.connection, db |-> d, ret |-> FALSE,
                 connects |-> p.connects, raised |-> env.stmt]

\* execute_update: rowcount is the number of rows the UPDATE matches; the
\* value returned is True only if at least one row was affected.  An
\* exception of the rollback is swallowed.
execute_update(conn, d, newdb, rowcount, env) ==
    LET p == Reconnect(conn, env) IN
    IF p.raised # None \/ ~p.go
    THEN [connection |-> p.connection, db |-> d, ret |-> FALSE,
          connects |-> p.connects, raised |-> p.raised]
    ELSE CASE env.stmt = "ok" ->
                [connection |-> p.connection, db |-> newdb,
                 ret |-> (rowcount > 0),
                 connects |-> p.connects, raised |-> None]
           [] env.stmt = "DatabaseError" ->
                [connection |-> p.connection, db |-> d, ret |-> FALSE,
                 connects |-> p.connects, raised |-> None]
           [] OTHER ->
                [connection |-> p.connection, db |-> d, ret |-> FALSE,
                 connects |-> p.connects, raised |-> env.stmt]

(***************************************************************************)
(* DatabaseManager: transactions and categories.                           *)
(***************************************************************************)
\* add_transaction: one INSERT, dated NOW(); the foreign key needs the
\* user's row.
add_transaction(conn, d, user_id, type, amount, category, description, env) ==
    execute_insert(
        conn, d,
        [d EXCEPT !.transactions =
            Append(@, TransactionRow(user_id, type, amount, category,
                                     description, now))],
        \A r \in d.users : r.user_id # user_id,
        env)

RECURSIVE SortByName(_)
SortByName(rows) ==
    IF rows = {} THEN <<>>
    ELSE LET first == CHOOSE r \in rows :
                         \A q \in rows :
                            \/ NameRank(r.name) < NameRank(q.name)
                            \/ (NameRank(r.name) = NameRank(q.name)
                                /\ r.id <= q.id)
         IN <<first>> \o SortByName(rows \ {first})

Range(seq) == {seq[i] : i \in 1..Len(seq)}

\* get_categories that creates an "Other" category when the user has none.
get_categories_creating(conn, d, user_id, category_type, env) ==
    LET rows == SortByName({c \in Range(d.categories) :
                              /\ SqlEq(c.user_id, user_id)
                              /\ (category_type \in {None, ""}
                                     \/ c.type = category_type)})
        other == CategoryRow(Len(d.categories) + 1, "Food", "expense",
                             NotNull(user_id))
        created == execute_insert(conn, d,
                                  [d EXCEPT !.categories = Append(@, other)],
                                  FALSE, env)
    IN IF rows = <<>>
       THEN [created EXCEPT !.ret = <<>>]
       ELSE execute_query(conn, d, rows, env)

\* get_categories: WHERE user_id = %s [AND type = %s] ORDER BY name.
get_categories(conn, d, user_id, category_type, env) ==
    execute_query(
        conn, d,
        SortByName({c \in Range(d.categories) :
                      /\ SqlEq(c.user_id, user_id)
                      /\ (category_type \in {None, ""}
                             \/ c.type = category_type)}),
        env)

(***************************************************************************)
(* DatabaseManager: users and budgets.  These operations issue two         *)
(* low-level calls; env1 and env2 are the store's behaviour during the     *)
(* first and the second.  connects lists the connect() calls of each       *)
(* low-level call that was made.                                           *)
(***************************************************************************)
\* An add_user whose UPDATE matches the row but leaves its values alone.
add_user_keeping(conn, d, user_id, name, currency, env1, env2) ==
    LET matching == {r \in d.users : r.user_id = user_id}
        updated == execute_update(conn, d, d, Cardinality(matching), env1)
        inserted == execute_insert(
            updated.connection, updated.db,
            [updated.db EXCEPT !.users =
                @ \cup {UserRow(user_id, name, currency)}],
            \E r \in updated.db.users : r.user_id = user_id, env2)
    IN IF updated.raised # None \/ updated.ret
       THEN [connection |-> updated.connection, db |-> updated.db,
             ret |-> updated.ret, connects |-> <<updated.connects>>,
             raised |-> updated.raised]
       ELSE [connection |-> inserted.connection, db |-> inserted.db,
             ret |-> inserted.ret,
             connects |-> <<updated.connects, inserted.connects>>,
             raised |-> inserted.raised]

\* add_user: UPDATE users ... WHERE user_id, then INSERT unless the update
\* returned True.
add_user(conn, d, user_id, name, currency, env1, env2) ==
    LET matching == {r \in d.users : r.user_id = user_id}
        updated == execute_update(
            conn, d,
            [d EXCEPT !.users =
                (@ \ matching)
                    \cup {UserRow(user_id, name, currency) : r \in matching}],
            Cardinality(matching), env1)
        inserted == execute_insert(
            updated.connection, updated.db,
            [updated.db EXCEPT !.users =
                @ \cup {UserRow(user_id, name, currency)}],
            \E r \in updated.db.users : r.user_id = user_id, env2)
    IN IF updated.raised # None \/ updated.ret
       THEN [connection |-> updated.connection, db |-> updated.db,
             ret |-> updated.ret, connects |-> <<updated.connects>>,
             raised |-> updated.raised]
       ELSE [connection |-> inserted.connection, db |-> inserted.db,
             ret |-> inserted.ret,
             connects |-> <<updated.connects, inserted.connects>>,
             raised |-> inserted.raised]

\* set_budget: UPDATE budgets SET limit_amount, period WHERE user_id AND
\* category, then INSERT unless the update returned True.
set_budget(conn, d, user_id, category, limit_amount, period, env1, env2) ==
    LET Matches(r) == r.user_id = user_id /\ r.category = category
        updated == execute_update(
            conn, d,
            [d EXCEPT !.budgets =
                [i \in 1..Len(@) |->
                    IF Matches(@[i])
                    THEN BudgetRow(user_id, category, limit_amount, period)
                    ELSE @[i]]],
            Len(SelectSeq(d.budgets, Matches)), env1)
        inserted == execute_insert(
            updated.connection, updated.db,
            [updated.db EXCEPT !.budgets =
                Append(@, BudgetRow(user_id, category, limit_amount, period))],
            FALSE, env2)
    IN IF updated.raised # None \/ updated.ret
       THEN [connection |-> updated.connection, db |-> updated.db,
             ret |-> updated.ret, connects |-> <<updated.connects>>,
             raised |-> updated.raised]
       ELSE [connection |-> inserted.connection, db |-> inserted.db,
             ret |-> inserted.ret,
             connects |-> <<updated.connects, inserted.connects>>,
             raised |-> inserted.raised]

\* Timestamps.  A day is cut into the instants the code's comparisons tell
\* apart: midnight, an instant during the day, 23:59:59 sharp (the end the
\* summaries use) and an instant within the last second of the day.  A
\* timestamp is the number of instants since 2024-01-01 00:00:00.
Ticks == <<"00:00:00", "12:00:00", "23:59:59", "23:59:59.5">>

TicksPerDay == Len(Ticks)

Instant(day, tick) == day * TicksPerDay + (tick - 1)

DayOf(t) == t \div TicksPerDay

Midnight(day) == Instant(day, 1)

\* The lengths of the months of 2024; day 0 is Monday 2024-01-01.
MonthLengths == <<31, 29, 31, 30, 31, 30, 31, 31, 30, 31, 30, 31>>

RECURSIVE MonthStartFrom(_, _, _)
MonthStartFrom(day, first, month) ==
    IF month = Len(MonthLengths) \/ day < first + MonthLengths[month]
    THEN first
    ELSE MonthStartFrom(day, first + MonthLengths[month], month + 1)

\* A period that reaches back thirty or seven days from today.
PeriodStart_rolling(day, period) ==
    IF period = "month" THEN day - 30 ELSE day - 7

\* now.replace(day=1, ...) for a month, now - timedelta(days=now.weekday())
\* for a week, both at midnight.
PeriodStart(day, period) ==
    IF period = "month" THEN MonthStartFrom(day, 0, 1) ELSE day - (day % 7)

RECURSIVE SumAmounts(_)
SumAmounts(rows) ==
    IF rows = <<>> THEN 0 ELSE rows[1].amount + SumAmounts(Tail(rows))

\* A check_budget_exceeded that looks the budget up by user and category
\* alone.
check_budget_exceeded_any_period(conn, d, user_id, category, period, env1, env2) ==
    LET IsBudget(r) ==
            r.user_id = user_id /\ r.category = category
        budget_result ==
            execute_query(conn, d, SelectSeq(d.budgets, IsBudget), env1)
        limit_amount == budget_result.ret[1].limit_amount
        start_date == Midnight(PeriodStart(DayOf(now), period))
        IsSpent(r) ==
            /\ r.user_id = user_id /\ r.category = category
            /\ r.type = "expense" /\ r.date >= start_date
        spent_result ==
            execute_query(
                budget_result.connection, d,
                <<[total |-> SumAmounts(SelectSeq(d.transactions, IsSpent))]>>,
                env2)
        spent_amount ==
            IF spent_result.ret # <<>> THEN spent_result.ret[1].total ELSE 0
    IN IF budget_result.raised # None
       THEN [connection |-> budget_result.connection, db |-> d,
             ret |-> <<>>, connects |-> <<budget_result.connects>>,
             raised |-> budget_result.raised]
       ELSE IF budget_result.ret = <<>>
       THEN [connection |-> budget_result.connection, db |-> d,
             ret |-> <<FALSE, 0, 0>>,
             connects |-> <<budget_result.connects>>, raised |-> None]
       ELSE IF spent_result.raised # None
       THEN [connection |-> spent_result.connection, db |-> d,
             ret |-> <<>>,
             connects |-> <<budget_result.connects, spent_result.connects>>,
             raised |-> spent_result.raised]
       ELSE [connection |-> spent_result.connection, db |-> d,
             ret |-> <<spent_amount > limit_amount, spent_amount,
                       limit_amount>>,
             connects |-> <<budget_result.connects, spent_result.connects>>,
             raised |-> None]

\* check_budget_exceeded: the limit of the budget row, then
\* COALESCE(SUM(amount), 0) of the expenses since the period start.
check_budget_exceeded(conn, d, user_id, category, period, env1, env2) ==
    LET IsBudget(r) ==
            r.user_id = user_id /\ r.category = category /\ r.period = period
        budget_result ==
            execute_query(conn, d, SelectSeq(d.budgets, IsBudget), env1)
        limit_amount == budget_result.ret[1].limit_amount
        start_date == Midnight(PeriodStart(DayOf(now), period))
        IsSpent(r) ==
            /\ r.user_id = user_id /\ r.category = category
            /\ r.type = "expense" /\ r.date >= start_date
        spent_result ==
            execute_query(
                budget_result.connection, d,
                <<[total |-> SumAmounts(SelectSeq(d.transactions, IsSpent))]>>,
                env2)
        spent_amount ==
            IF spent_result.ret # <<>> THEN spent_result.ret[1].total ELSE 0
    IN IF budget_result.raised # None
       THEN [connection |-> budget_result.connection, db |-> d,
             ret |-> <<>>, connects |-> <<budget_result.connects>>,
             raised |-> budget_result.raised]
       ELSE IF budget_result.ret = <<>>
       THEN [connection |-> budget_result.connection, db |-> d,
             ret |-> <<FALSE, 0, 0>>,
             connects |-> <<budget_result.connects>>, raised |-> None]
       ELSE IF spent_result.raised # None
       THEN [connection |-> spent_result.connection, db |-> d,
             ret |-> <<>>,
             connects |-> <<budget_result.connects, spent_result.connects>>,
             raised |-> spent_result.raised]
       ELSE [connection |-> spent_result.connection, db |-> d,
             ret |-> <<spent_amount > limit_amount, spent_amount,
                       limit_amount>>,
             connects |-> <<budget_result.connects, spent_result.connects>>,
             raised |-> None]

\* The value an operation returned, tagged with its Python type.
PyNone == [none |-> TRUE]

PyBool(b) == [bool |-> b]

PyList(rows) == [list |-> rows]

PyTuple(t) == [tuple |-> t]

(***************************************************************************)
(* DatabaseManager: the reads behind /balance and /report.                 *)
(***************************************************************************)
\* timedelta(days=30), the default start of get_transactions.
DefaultWindowDays == 30

Reverse(seq) == [i \in 1..Len(seq) |-> seq[Len(seq) + 1 - i]]

Take(seq, n) == SubSeq(seq, 1, IF Len(seq) < n THEN Len(seq) ELSE n)

\* A get_transactions whose WHERE clause has no user_id.
get_transactions_of_all(conn, d, user_id, start_date, end_date, limit, env) ==
    LET start == IF start_date = None
                 THEN now - DefaultWindowDays * TicksPerDay ELSE start_date
        end == IF end_date = None THEN now ELSE end_date
        Selected(r) == r.date >= start /\ r.date <= end
    IN execute_query(
           conn, d, Take(Reverse(SelectSeq(d.transactions, Selected)), limit),
           env)

\* get_transactions: WHERE user_id = %s AND date BETWEEN %s AND %s ORDER BY
\* date DESC LIMIT %s.  Rows are stored in the order of their dates, so the
\* newest first is the stored order reversed.
get_transactions(conn, d, user_id, start_date, end_date, limit, env) ==
    LET start == IF start_date = None
                 THEN now - DefaultWindowDays * TicksPerDay ELSE start_date
        end == IF end_date = None THEN now ELSE end_date
        Selected(r) ==
            r.user_id = user_id /\ r.date >= start /\ r.date <= end
    IN execute_query(
           conn, d, Take(Reverse(SelectSeq(d.transactions, Selected)), limit),
           env)

RECURSIVE FirstDayOfMonth(_)
FirstDayOfMonth(month) ==
    IF month = 1 THEN 0
    ELSE FirstDayOfMonth(month - 1) + MonthLengths[month - 1]

\* get_monthly_summary: SUM(amount) GROUP BY type over the rows dated
\* BETWEEN datetime(year, month, 1) AND datetime(year, month, last, 23, 59,
\* 59); the clock stays within 2024.
get_monthly_summary(conn, d, user_id, year, month, env) ==
    LET start_date == Midnight(FirstDayOfMonth(month))
        end_date ==
            Instant(FirstDayOfMonth(month) + MonthLengths[month] - 1, 3)
        Selected(r) ==
            r.user_id = user_id /\ r.date >= start_date /\ r.date <= end_date
        selected == SelectSeq(d.transactions, Selected)
        OfType(type) == SelectSeq(selected, LAMBDA r : r.type = type)
        types == {selected[i].type : i \in 1..Len(selected)}
        results ==
            execute_query(
                conn, d,
                [type \in types |->
                    [total |-> SumAmounts(OfType(type)),
                     count |-> Len(OfType(type))]],
                env)
        Total(type) ==
            IF results.raised = None /\ type \in DOMAIN results.ret
            THEN results.ret[type] ELSE [total |-> 0, count |-> 0]
    IN [results EXCEPT !.ret =
           [income |-> Total("income").total,
            expense |-> Total("expense").total,
            income_count |-> Total("income").count,
            expense_count |-> Total("expense").count,
            balance |-> Total("income").total - Total("expense").total]]

\* start_date.month.
MonthOf(t) ==
    CHOOSE month \in 1..Len(MonthLengths) :
        /\ FirstDayOfMonth(month) <= DayOf(t)
        /\ DayOf(t) < FirstDayOfMonth(month) + MonthLengths[month]

\* get_weekly_summary: end_date = start_date + 6 days 23:59:59 is computed
\* and not used; the result is the summary of start_date's month.
get_weekly_summary(conn, d, user_id, start_date, env) ==
    get_monthly_summary(conn, d, user_id, 2024, MonthOf(start_date), env)

(***************************************************************************)
(* FinanceBotHandlers: the handlers of the transaction-entry dialogue.     *)
(* Callback data "type_income", "cat_1" is the sequence of its parts       *)
(* between underscores, so split("_")[1] is the second part.               *)
(***************************************************************************)
\* categories[:5]: the number of category buttons offered.
MaxButtons == 5

CallbackData(prefix, arg) == <<prefix, arg>>

StartsWith(data, prefix) == data[1] = prefix

\* The dialogue state a user is in: the 'state' of the user's entry.
StateOf(user_id) ==
    IF user_id \in DOMAIN user_states
    THEN DictGet(user_states[user_id], "state", None)
    ELSE "no_session"

\* The record of a handled update: the handler, the user, the input, the
\* message sent back, the exception that escaped the handler, the dialogue
\* state the handler found (from), and the update handled before it (prev).
Op(op, user, data, reply, raised) ==
    [op |-> op, user |-> user, data |-> data, reply |-> reply,
     raised |-> raised, from |-> StateOf(user),
     prev |-> [op |-> lastOp.op, user |-> lastOp.user,
               from |-> lastOp.from, reply |-> lastOp.reply]]

\* clear_user_state that forgets to delete the entry.
clear_user_state_kept(states, user_id) == states

\* clear_user_state: the user's entry is deleted if present.
clear_user_state(states, user_id) ==
    IF user_id \in DOMAIN states THEN DictDel(states, user_id) ELSE states

\* add_command: /add.
add_command(user_id) ==
    /\ user_states' = DictSet(user_states, user_id, [state |-> "waiting_type"])
    /\ buttons' = [buttons EXCEPT ![user_id] =
                      @ \cup {CallbackData("type", "income"),
                              CallbackData("type", "expense")}]
    /\ lastOp' = Op("add", user_id, NoData, "choose_type", None)
    /\ UNCHANGED <<db_manager, connection, db>>

\* cancel_command: /cancel.
cancel_command(user_id) ==
    /\ user_states' = clear_user_state(user_states, user_id)
    /\ lastOp' = Op("cancel", user_id, NoData, "cancelled", None)
    /\ UNCHANGED <<db_manager, connection, db, buttons>>

\* handle_callback: a button of the user's chat is pressed.
handle_callback(user_id, data) ==
    /\ IF StartsWith(data, "type")
       THEN /\ user_states' =
                 DictSet(user_states, user_id,
                         [state |-> "waiting_amount", type |-> data[2]])
            /\ lastOp' = Op("callback", user_id, data, "enter_amount", None)
       ELSE IF StartsWith(data, "cat")
       THEN IF user_id \in DOMAIN user_states
            THEN /\ user_states' =
                      [user_states EXCEPT ![user_id] =
                          DictSet(DictSet(@, "category", data[2]),
                                  "state", "waiting_description")]
                 /\ lastOp' = Op("callback", user_id, data,
                                 "enter_description", None)
            ELSE /\ UNCHANGED user_states
                 /\ lastOp' = Op("callback", user_id, data, None, None)
       ELSE /\ UNCHANGED user_states
            /\ lastOp' = Op("callback", user_id, data, None, None)
    /\ UNCHANGED <<db_manager, connection, db, buttons>>

\* An idle text that opens a dialogue instead of being answered with guidance.
IdleMessage_opens(user_id, text) ==
    /\ user_states' = DictSet(user_states, user_id, [state |-> "waiting_type"])
    /\ lastOp' = Op("message", user_id, text, "guidance", None)
    /\ UNCHANGED <<connection, db, buttons>>

\* handle_message without a session (bot.py 237-239): the guidance reply.
IdleMessage(user_id, text) ==
    /\ lastOp' = Op("message", user_id, text, "guidance", None)
    /\ UNCHANGED <<user_states, connection, db, buttons>>

\* An invalid amount that aborts the dialogue instead of asking again.
InvalidAmount_aborts(user_id, text) ==
    /\ user_states' = DictDel(user_states, user_id)
    /\ lastOp' = Op("message", user_id, text, "invalid_amount", None)
    /\ UNCHANGED <<connection, db, buttons>>

\* handle_message, except ValueError (bot.py 257-258): float() raised before
\* anything was assigned, and the user is asked again.
InvalidAmount(user_id, text) ==
    /\ lastOp' = Op("message", user_id, text, "invalid_amount", None)
    /\ UNCHANGED <<user_states, connection, db, buttons>>

\* handle_message, state 'waiting_amount' (bot.py 243-258).
AmountStep(user_id, text) ==
    LET state_info == user_states[user_id]
        amount == ParseFloat(text)
        advanced == DictSet(DictSet(state_info, "amount", amount.value),
                            "state", "waiting_category")
    IN
    IF ~amount.ok
    THEN InvalidAmount(user_id, text)
    ELSE IF db_manager = None
    THEN \* None.get_categories raises after the two assignments
         /\ user_states' = [user_states EXCEPT ![user_id] = advanced]
         /\ lastOp' = Op("message", user_id, text, None, "AttributeError")
         /\ UNCHANGED <<connection, db, buttons>>
    ELSE \E env \in Envs :
         LET r == get_categories(connection, db, user_id,
                                 DictGet(state_info, "type", None), env)
         IN
         /\ user_states' = [user_states EXCEPT ![user_id] = advanced]
         /\ connection' = r.connection
         /\ db' = r.db
         /\ IF r.raised # None
            THEN /\ lastOp' = Op("message", user_id, text, None, r.raised)
                 /\ UNCHANGED buttons
            ELSE IF r.ret # <<>>
            THEN /\ buttons' =
                      [buttons EXCEPT ![user_id] =
                          @ \cup {CallbackData("cat", Str(r.ret[i].id)) :
                                    i \in 1..(IF Len(r.ret) < MaxButtons
                                              THEN Len(r.ret)
                                              ELSE MaxButtons)}]
                 /\ lastOp' = Op("message", user_id, text,
                                 "choose_category", None)
            ELSE /\ lastOp' = Op("message", user_id, text,
                                 "no_categories", None)
                 /\ UNCHANGED buttons

\* handle_message, state 'waiting_description' (bot.py 260-286).
DescriptionStep(user_id, text) ==
    LET state_info == DictSet(user_states[user_id], "description", text) IN
    IF db_manager = None
    THEN /\ user_states' = clear_user_state(user_states, user_id)
         /\ lastOp' = Op("message", user_id, text, "db_error", None)
         /\ UNCHANGED <<connection, db, buttons>>
    ELSE IF "type" \notin DOMAIN state_info \/ "amount" \notin DOMAIN state_info
    THEN \* state_info['type'] or state_info['amount'] raises KeyError
         /\ user_states' = [user_states EXCEPT ![user_id] = state_info]
         /\ lastOp' = Op("message", user_id, text, None, "KeyError")
         /\ UNCHANGED <<connection, db, buttons>>
    ELSE \E env \in Envs :
         LET r == add_transaction(connection, db, user_id,
                                  state_info["type"], state_info["amount"],
                                  DictGet(state_info, "category", "Other"),
                                  state_info["description"], env)
         IN
         /\ connection' = r.connection
         /\ db' = r.db
         /\ UNCHANGED buttons
         /\ IF r.raised # None
            THEN /\ user_states' = [user_states EXCEPT ![user_id] = state_info]
                 /\ lastOp' = Op("message", user_id, text, None, r.raised)
            ELSE /\ user_states' = clear_user_state(user_states, user_id)
                 /\ lastOp' = Op("message", user_id, text,
                                 IF r.ret THEN "saved" ELSE "save_failed",
                                 None)

\* handle_message: a text message that is no command.
handle_message(user_id, text) ==
    /\ UNCHANGED db_manager
    /\ IF user_id \notin DOMAIN user_states
       THEN IdleMessage(user_id, text)
       ELSE LET state == DictGet(user_states[user_id], "state", None) IN
            IF state = "waiting_amount"
            THEN AmountStep(user_id, text)
            ELSE IF state = "waiting_description"
            THEN DescriptionStep(user_id, text)
            ELSE /\ lastOp' = Op("message", user_id, text, None, None)
                 /\ UNCHANGED <<user_states, connection, db, buttons>>

\* help_command: /help.
help_command(user_id) ==
    /\ user_states' = clear_user_state(user_states, user_id)
    /\ lastOp' = Op("help", user_id, NoData, "help", None)
    /\ UNCHANGED <<db_manager, connection, db, buttons>>

\* limit=100 in balance_command.
BalanceLimit == 100

\* balance_command: /balance.  The reply carries the three numbers.
balance_command(user_id, env) ==
    /\ user_states' = clear_user_state(user_states, user_id)
    /\ UNCHANGED <<db_manager, buttons>>
    /\ IF db_manager = None
       THEN /\ lastOp' = Op("balance", user_id, NoData,
                            [text |-> "db_error"], None)
            /\ UNCHANGED <<connection, db, dalOp>>
       ELSE LET r == get_transactions(connection, db, user_id, None, None,
                                      BalanceLimit, env)
                transactions == r.ret
                income == SumAmounts(SelectSeq(transactions,
                                               LAMBDA t : t.type = "income"))
                expense == SumAmounts(SelectSeq(transactions,
                                                LAMBDA t : t.type = "expense"))
                balance == income - expense
            IN /\ connection' = r.connection
               /\ db' = r.db
               /\ dalOp' = [op |-> "get_transactions",
                            args |-> <<user_id, None, None, BalanceLimit>>,
                            connects |-> <<r.connects>>,
                            ret |-> PyList(r.ret), raised |-> r.raised]
               /\ lastOp' =
                     IF r.raised # None
                     THEN Op("balance", user_id, NoData, [text |-> "none"],
                             r.raised)
                     ELSE Op("balance", user_id, NoData,
                             [text |-> "Financial Summary",
                              income |-> income, expense |-> expense,
                              balance |-> balance], None)

(***************************************************************************)
(* The dialogue specification: updates are handled one at a time.          *)
(***************************************************************************)
RegisteredUsers == {UserRow(1, "ann", "RUB"), UserRow(2, "bob", "RUB")}

\* The day the clock shows during a dialogue, counted from Monday
\* 2024-01-01 (day 0): Thursday 2024-02-08, at noon.
ClockDays == {38}

\* The worker threads of the bot's pool (TeleBot's default is two).
Threads == {"w1", "w2"}

IdleWorker ==
    [pc |-> "idle", user |-> 0, text |-> NoData, ref |-> FALSE,
     state_info |-> EmptyDict, raised |-> None]

\* Between the calls of a single caller no transaction holds a write:
\* execute_insert and execute_update commit or roll back before returning.
NoTransaction == "NoTransaction"

NoDalOp ==
    [op |-> "none", args |-> <<>>, connects |-> <<>>, ret |-> PyNone,
     raised |-> None]

Init ==
    /\ workers = [t \in Threads |-> IdleWorker]
    /\ dalOp = NoDalOp
    /\ inflight = NoTransaction
    /\ now \in {Instant(day, 2) : day \in ClockDays}
    /\ user_states = EmptyDict
    /\ db_manager \in {None, "DatabaseManager"}
    /\ connection = IF db_manager = None THEN None ELSE "Connection"
    /\ db = [EmptyDb EXCEPT !.users = RegisteredUsers]
    /\ buttons = [u \in Users |-> {}]
    /\ lastOp = [op |-> "init", user |-> 0, data |-> NoData, reply |-> None,
                 raised |-> None, from |-> "no_session",
                 prev |-> [op |-> "init", user |-> 0, from |-> "no_session",
                           reply |-> None]]

\* The store has room for the row a description step may insert.
HasRoom(user_id) ==
    IF user_id \notin DOMAIN user_states THEN TRUE
    ELSE IF DictGet(user_states[user_id], "state", None) # "waiting_description"
    THEN TRUE
    ELSE Len(db.transactions) < MaxTx

Add == \E u \in Actors : add_command(u) /\ UNCHANGED <<workers, dalOp, now, inflight>>

Cancel == \E u \in Actors : cancel_command(u) /\ UNCHANGED <<workers, dalOp, now, inflight>>

Callback ==
    \E u \in Actors : \E data \in buttons[u] :
        handle_callback(u, data) /\ UNCHANGED <<workers, dalOp, now, inflight>>

Message ==
    \E u \in Actors : \E text \in Texts :
        HasRoom(u) /\ handle_message(u, text) /\ UNCHANGED <<workers, dalOp, now, inflight>>

Next == Add \/ Cancel \/ Callback \/ Message

Spec == Init /\ [][Next]_vars

(***************************************************************************)
(* The worker-pool specification: TeleBot hands each update to one of its  *)
(* worker threads, none of the handlers takes a lock, and the threads      *)
(* interleave between statements.  handle_message and cancel_command are   *)
(* split at the statements that read or write user_states; a worker is at  *)
(* the statement its pc names (the line of bot.py it executes next).       *)
(* Neither handler creates a state dict, so a user has one dict object     *)
(* throughout: every worker that holds a reference to it (ref) and the     *)
(* entry of user_states see each assignment made through any reference.    *)
(***************************************************************************)
\* The dialogues in progress when the updates arrive.
ConcSessions ==
    { [state |-> "waiting_amount", type |-> "expense"],
      [state |-> "waiting_description", type |-> "expense", amount |-> 5,
       category |-> "1"] }

InitConc ==
    /\ user_states \in {DictSet(EmptyDict, 1, d) : d \in ConcSessions}
    /\ db_manager = "DatabaseManager"
    /\ connection = "Connection"
    /\ db = [EmptyDb EXCEPT !.users = RegisteredUsers]
    /\ buttons = [u \in Users |->
                    IF u = 1
                    THEN {CallbackData("type", "income"),
                          CallbackData("type", "expense"),
                          CallbackData("cat", "1")}
                    ELSE {}]
    /\ lastOp = [op |-> "init", user |-> 0, data |-> NoData, reply |-> None,
                 raised |-> None, from |-> "no_session",
                 prev |-> [op |-> "init", user |-> 0, from |-> "no_session",
                           reply |-> None]]
    /\ workers = [t \in Threads |-> IdleWorker]
    /\ dalOp = NoDalOp
    /\ inflight = NoTransaction
    /\ now \in {Instant(day, 2) : day \in ClockDays}

\* The assignment made to one state dict that all users share.
Assign_shared(t, key, value, pc) ==
    /\ workers' = [workers EXCEPT ![t].state_info = DictSet(@, key, value),
                                  ![t].pc = pc]
    /\ user_states' =
         [u \in DOMAIN user_states |-> DictSet(user_states[u], key, value)]

\* state_info[key] = value through worker t's reference.
Assign(t, key, value, pc) ==
    LET u == workers[t].user IN
    /\ workers' =
         [w \in Threads |->
            IF w = t
            THEN [workers[w] EXCEPT !.state_info = DictSet(@, key, value),
                                    !.pc = pc]
            ELSE IF workers[w].ref /\ workers[w].user = u
            THEN [workers[w] EXCEPT !.state_info = DictSet(@, key, value)]
            ELSE workers[w]]
    /\ user_states' =
         IF u \in DOMAIN user_states
         THEN [user_states EXCEPT ![u] = DictSet(@, key, value)]
         ELSE user_states

Goto(t, pc) == workers' = [workers EXCEPT ![t].pc = pc]

Return(t, raised) ==
    workers' = [workers EXCEPT ![t] = [IdleWorker EXCEPT !.raised = raised]]

\* A worker takes a text message from the queue.
TakeMessage(t) ==
    /\ workers[t].pc = "idle"
    /\ \E u \in Actors : \E text \in Texts :
         workers' = [workers EXCEPT ![t] =
                       [IdleWorker EXCEPT !.pc = "237", !.user = u,
                                          !.text = text]]
    /\ UNCHANGED <<user_states, db_manager, connection, db, buttons, lastOp,
                   dalOp, now, inflight>>

\* A worker takes a /cancel from the queue: cancel_command calls
\* clear_user_state first.
TakeCancel(t) ==
    /\ workers[t].pc = "idle"
    /\ \E u \in Actors :
         workers' = [workers EXCEPT ![t] =
                       [IdleWorker EXCEPT !.pc = "80", !.user = u]]
    /\ UNCHANGED <<user_states, db_manager, connection, db, buttons, lastOp,
                   dalOp, now, inflight>>

\* bot.py 237: if user_id not in self.user_states.
Line237(t) ==
    /\ workers[t].pc = "237"
    /\ IF workers[t].user \notin DOMAIN user_states
       THEN Return(t, None)
       ELSE Goto(t, "241")
    /\ UNCHANGED <<user_states, db_manager, connection, db, buttons, lastOp,
                   dalOp, now, inflight>>

\* bot.py 241: state_info = self.user_states[user_id].
Line241(t) ==
    /\ workers[t].pc = "241"
    /\ IF workers[t].user \notin DOMAIN user_states
       THEN Return(t, "KeyError")
       ELSE workers' = [workers EXCEPT
                          ![t].ref = TRUE,
                          ![t].state_info = user_states[workers[t].user],
                          ![t].pc = "243"]
    /\ UNCHANGED <<user_states, db_manager, connection, db, buttons, lastOp,
                   dalOp, now, inflight>>

\* bot.py 243 and 260: the branch on state_info.get('state').
Line243(t) ==
    /\ workers[t].pc = "243"
    /\ LET state == DictGet(workers[t].state_info, "state", None) IN
       IF state = "waiting_amount" THEN Goto(t, "245")
       ELSE IF state = "waiting_description" THEN Goto(t, "261")
       ELSE Return(t, None)
    /\ UNCHANGED <<user_states, db_manager, connection, db, buttons, lastOp,
                   dalOp, now, inflight>>

\* bot.py 245: amount = float(message.text).
Line245(t) ==
    /\ workers[t].pc = "245"
    /\ IF ParseFloat(workers[t].text).ok
       THEN Goto(t, "246")
       ELSE Return(t, None)
    /\ UNCHANGED <<user_states, db_manager, connection, db, buttons, lastOp,
                   dalOp, now, inflight>>

\* bot.py 246: state_info['amount'] = amount.
Line246(t) ==
    /\ workers[t].pc = "246"
    /\ Assign(t, "amount", ParseFloat(workers[t].text).value, "247")
    /\ UNCHANGED <<db_manager, connection, db, buttons, lastOp, dalOp, now, inflight>>

\* bot.py 247: state_info['state'] = 'waiting_category'.
Line247(t) ==
    /\ workers[t].pc = "247"
    /\ Assign(t, "state", "waiting_category", "249")
    /\ UNCHANGED <<db_manager, connection, db, buttons, lastOp, dalOp, now, inflight>>

\* bot.py 249-256: the categories are fetched and offered.
Line249(t) ==
    /\ workers[t].pc = "249"
    /\ IF db_manager = None
       THEN /\ Return(t, "AttributeError")
            /\ UNCHANGED <<connection, db, buttons>>
       ELSE \E env \in Envs :
            LET r == get_categories(connection, db, workers[t].user,
                                    DictGet(workers[t].state_info, "type",
                                            None), env)
            IN
            /\ connection' = r.connection
            /\ db' = r.db
            /\ Return(t, r.raised)
            /\ buttons' =
                 [buttons EXCEPT ![workers[t].user] =
                    @ \cup {CallbackData("cat", Str(r.ret[i].id)) :
                              i \in 1..(IF Len(r.ret) < MaxButtons
                                        THEN Len(r.ret) ELSE MaxButtons)}]
    /\ UNCHANGED <<user_states, db_manager, lastOp, dalOp, now, inflight>>

\* bot.py 261: state_info['description'] = message.text.
Line261(t) ==
    /\ workers[t].pc = "261"
    /\ Assign(t, "description", workers[t].text, "263")
    /\ UNCHANGED <<db_manager, connection, db, buttons, lastOp, dalOp, now, inflight>>

\* bot.py 263-284: the transaction is persisted from the dict's fields.
Line263(t) ==
    /\ workers[t].pc = "263"
    /\ LET state_info == workers[t].state_info IN
       IF db_manager = None
       THEN /\ Goto(t, "80")
            /\ UNCHANGED <<connection, db>>
       ELSE IF "type" \notin DOMAIN state_info
               \/ "amount" \notin DOMAIN state_info
       THEN /\ Return(t, "KeyError")
            /\ UNCHANGED <<connection, db>>
       ELSE \E env \in Envs :
            LET r == add_transaction(connection, db, workers[t].user,
                                     state_info["type"], state_info["amount"],
                                     DictGet(state_info, "category", "Other"),
                                     state_info["description"], env)
            IN
            /\ connection' = r.connection
            /\ db' = r.db
            /\ IF r.raised # None THEN Return(t, r.raised) ELSE Goto(t, "80")
    /\ UNCHANGED <<user_states, db_manager, buttons, lastOp, dalOp, now, inflight>>

\* bot.py 80: if user_id in self.user_states.
Line80(t) ==
    /\ workers[t].pc = "80"
    /\ IF workers[t].user \in DOMAIN user_states
       THEN Goto(t, "81")
       ELSE Return(t, None)
    /\ UNCHANGED <<user_states, db_manager, connection, db, buttons, lastOp,
                   dalOp, now, inflight>>

\* bot.py 81: del self.user_states[user_id].
Line81(t) ==
    /\ workers[t].pc = "81"
    /\ IF workers[t].user \in DOMAIN user_states
       THEN /\ user_states' = DictDel(user_states, workers[t].user)
            /\ Return(t, None)
       ELSE /\ UNCHANGED user_states
            /\ Return(t, "KeyError")
    /\ UNCHANGED <<db_manager, connection, db, buttons, lastOp, dalOp, now, inflight>>

NextConc ==
    \E t \in Threads :
        \/ TakeMessage(t)
        \/ TakeCancel(t)
        \/ Line237(t)
        \/ Line241(t)
        \/ Line243(t)
        \/ Line245(t)
        \/ Line246(t)
        \/ Line247(t)
        \/ Line249(t)
        \/ Line261(t)
        \/ Line263(t)
        \/ Line80(t)
        \/ Line81(t)

SpecConc == InitConc /\ [][NextConc]_vars

(***************************************************************************)
(* The data-access specification: the operations of DatabaseManager are    *)
(* called one at a time, on a store whose health changes between and       *)
(* within the calls.                                                       *)
(***************************************************************************)
\* The budgets table holds at most MaxBudgets rows in a run.
MaxBudgets == 1

Names == {"ann", "eve"}

Currencies == {"RUB", "USD"}

Periods == {"month", "week"}

InitDal ==
    /\ user_states = EmptyDict
    /\ db_manager = "DatabaseManager"
    /\ connection \in {None, "Connection"}
    /\ db \in {EmptyDb, [EmptyDb EXCEPT !.users = {UserRow(1, "ann", "RUB")}]}
    /\ buttons = [u \in Users |-> {}]
    /\ lastOp = [op |-> "init", user |-> 0, data |-> NoData, reply |-> None,
                 raised |-> None, from |-> "no_session",
                 prev |-> [op |-> "init", user |-> 0, from |-> "no_session",
                           reply |-> None]]
    /\ workers = [t \in Threads |-> IdleWorker]
    /\ dalOp = NoDalOp
    /\ inflight = NoTransaction
    /\ now \in {Instant(day, 2) : day \in ClockDays}

DalResult(op, args, r) ==
    /\ connection' = r.connection
    /\ db' = r.db
    /\ dalOp' = [op |-> op, args |-> args, connects |-> r.connects,
                 ret |-> r.ret, raised |-> r.raised]
    /\ UNCHANGED <<user_states, db_manager, buttons, lastOp, workers, now,
                   inflight>>

AddUser ==
    \E u \in Actors : \E name \in Names : \E currency \in Currencies :
    \E env1 \in Envs : \E env2 \in Envs :
        LET r == add_user(connection, db, u, name, currency, env1, env2)
        IN DalResult("add_user", <<u, name, currency>>,
                     [r EXCEPT !.ret = PyBool(@)])

SetBudget ==
    \E u \in Actors : \E period \in Periods :
    \E env1 \in Envs : \E env2 \in Envs :
        /\ Len(db.budgets) < MaxBudgets
        /\ LET r == set_budget(connection, db, u, "Food", 500, period,
                               env1, env2)
           IN DalResult("set_budget", <<u, "Food", 500, period>>,
                        [r EXCEPT !.ret = PyBool(@)])

CheckBudgetExceeded ==
    \E u \in Actors : \E period \in Periods :
    \E env1 \in Envs : \E env2 \in Envs :
        LET r == check_budget_exceeded(connection, db, u, "Food", period,
                                       env1, env2)
        IN DalResult("check_budget_exceeded", <<u, "Food", period>>,
                     [r EXCEPT !.ret = PyTuple(@)])

AddTransaction ==
    \E u \in Actors : \E env \in Envs :
        /\ Len(db.transactions) < MaxTx
        /\ LET r == add_transaction(connection, db, u, "expense", 600,
                                    "Food", <<"a", "b">>, env)
           IN DalResult("add_transaction",
                        <<u, "expense", 600, "Food", <<"a", "b">>>>,
                        [r EXCEPT !.connects = <<r.connects>>,
                                  !.ret = PyBool(@)])

GetCategories ==
    \E u \in Actors : \E env \in Envs :
        LET r == get_categories(connection, db, u, "expense", env)
        IN DalResult("get_categories", <<u, "expense">>,
                     [r EXCEPT !.connects = <<r.connects>>,
                               !.ret = PyList(@)])

NextDal ==
    AddUser \/ SetBudget \/ CheckBudgetExceeded \/ AddTransaction
        \/ GetCategories

SpecDal == InitDal /\ [][NextDal]_vars

(***************************************************************************)
(* The shared-connection specification: two worker threads call add_user   *)
(* or set_budget on the one DatabaseManager.  No method takes a lock, so   *)
(* the threads interleave between the statements they send over            *)
(* self.connection; the store is healthy.  All statements run in the one   *)
(* transaction the connection has open: inflight.content is the content    *)
(* that transaction sees (committed rows and its own uncommitted writes),  *)
(* inflight.aborted tells that a statement failed in it, after which the   *)
(* server refuses every statement until the transaction ends.              *)
(***************************************************************************)
CleanTransaction(d) == [content |-> d, aborted |-> FALSE]

\* UPDATE users SET name, currency WHERE user_id (add_user).
UpdateUsers(content, args) ==
    LET matching == {r \in content.users : r.user_id = args[1]} IN
    [content |-> [content EXCEPT !.users =
                     (@ \ matching)
                        \cup {UserRow(args[1], args[2], args[3]) :
                                r \in matching}],
     rowcount |-> Cardinality(matching),
     violates |-> FALSE]

\* INSERT INTO users (add_user); user_id is the primary key.
InsertUsers(content, args) ==
    [content |-> [content EXCEPT !.users =
                     @ \cup {UserRow(args[1], args[2], args[3])}],
     rowcount |-> 1,
     violates |-> \E r \in content.users : r.user_id = args[1]]

\* UPDATE budgets SET limit_amount, period WHERE user_id AND category
\* (set_budget).
UpdateBudgets(content, args) ==
    LET Matches(r) == r.user_id = args[1] /\ r.category = args[2] IN
    [content |-> [content EXCEPT !.budgets =
                     [i \in 1..Len(@) |->
                         IF Matches(@[i])
                         THEN BudgetRow(args[1], args[2], args[3], args[4])
                         ELSE @[i]]],
     rowcount |-> Len(SelectSeq(content.budgets, Matches)),
     violates |-> FALSE]

\* An INSERT INTO budgets on a table with a unique key on
\* (user_id, category, period).
InsertBudgets_unique(content, args) ==
    [content |-> [content EXCEPT !.budgets =
                     Append(@, BudgetRow(args[1], args[2], args[3], args[4]))],
     rowcount |-> 1,
     violates |-> \E i \in 1..Len(content.budgets) :
                     /\ content.budgets[i].user_id = args[1]
                     /\ content.budgets[i].category = args[2]
                     /\ content.budgets[i].period = args[4]]

\* INSERT INTO budgets (set_budget); the table has no key but its serial id.
InsertBudgets(content, args) ==
    [content |-> [content EXCEPT !.budgets =
                     Append(@, BudgetRow(args[1], args[2], args[3], args[4]))],
     rowcount |-> 1,
     violates |-> FALSE]

\* The statement a worker is about to send.
Statement(w, content) ==
    CASE w.op = "add_user" /\ w.stmt = "update" -> UpdateUsers(content, w.args)
      [] w.op = "add_user" /\ w.stmt = "insert" -> InsertUsers(content, w.args)
      [] w.op = "set_budget" /\ w.stmt = "update" ->
            UpdateBudgets(content, w.args)
      [] OTHER -> InsertBudgets(content, w.args)

SharedCalls ==
    {[op |-> "add_user", args |-> <<1, name, "RUB">>] : name \in Names}
        \cup {[op |-> "set_budget", args |-> <<1, "Food", limit, "month">>] :
                limit \in {500, 700}}

NotCalled ==
    [pc |-> "idle", op |-> "none", args |-> <<>>, stmt |-> "none",
     affected |-> 0, ret |-> FALSE]

InitShared ==
    /\ user_states = EmptyDict
    /\ db_manager = "DatabaseManager"
    /\ connection = "Connection"
    /\ db \in {EmptyDb, [EmptyDb EXCEPT !.users = {UserRow(1, "ann", "RUB")}]}
    /\ buttons = [u \in Users |-> {}]
    /\ lastOp = [op |-> "init", user |-> 0, data |-> NoData, reply |-> None,
                 raised |-> None, from |-> "no_session",
                 prev |-> [op |-> "init", user |-> 0, from |-> "no_session",
                           reply |-> None]]
    /\ workers = [t \in Threads |-> NotCalled]
    /\ dalOp = NoDalOp
    /\ now \in {Instant(day, 2) : day \in ClockDays}
    /\ inflight = CleanTransaction(db)

\* The variables no statement of the DatabaseManager touches.
SharedFrame ==
    UNCHANGED <<user_states, db_manager, connection, buttons, lastOp, dalOp,
                now>>

\* A handler calls add_user or set_budget, which calls execute_update.
Call(t) ==
    /\ workers[t].pc = "idle"
    /\ \E c \in SharedCalls :
          workers' = [workers EXCEPT ![t] =
                         [NotCalled EXCEPT !.pc = "probe", !.op = c.op,
                                           !.args = c.args,
                                           !.stmt = "update"]]
    /\ UNCHANGED <<db, inflight>>
    /\ SharedFrame

\* The reconnect prelude: SELECT 1 fails in an aborted transaction, and
\* connect() then replaces self.connection with a new connection, whose
\* transaction holds nothing of the old one.
Probe(t) ==
    /\ workers[t].pc = "probe"
    /\ inflight' = IF inflight.aborted THEN CleanTransaction(db) ELSE inflight
    /\ workers' = [workers EXCEPT ![t].pc = "execute"]
    /\ UNCHANGED db
    /\ SharedFrame

\* cursor = self.connection.cursor(); cursor.execute(query, params).
Execute(t) ==
    /\ workers[t].pc = "execute"
    /\ LET st == Statement(workers[t], inflight.content) IN
       IF inflight.aborted \/ st.violates
       THEN /\ inflight' = [inflight EXCEPT !.aborted = TRUE]
            /\ workers' = [workers EXCEPT ![t].pc = "rollback"]
       ELSE /\ inflight' = [inflight EXCEPT !.content = st.content]
            /\ workers' = [workers EXCEPT
                              ![t].pc = "commit",
                              ![t].affected = IF workers[t].stmt = "update"
                                              THEN st.rowcount ELSE @]
    /\ UNCHANGED db
    /\ SharedFrame

\* What the caller does with the value execute_update or execute_insert
\* returned: after an update that returned False it calls execute_insert.
Returned(w, value) ==
    IF w.stmt = "update" /\ ~value
    THEN [w EXCEPT !.pc = "probe", !.stmt = "insert"]
    ELSE [w EXCEPT !.pc = "done", !.ret = value]

\* self.connection.commit(): the server ends an aborted transaction with a
\* rollback and reports no error.
Commit(t) ==
    /\ workers[t].pc = "commit"
    /\ db' = IF inflight.aborted THEN db ELSE inflight.content
    /\ inflight' = CleanTransaction(db')
    /\ workers' = [workers EXCEPT ![t] =
                      Returned(@, IF @.stmt = "update" THEN @.affected > 0
                                  ELSE TRUE)]
    /\ SharedFrame

\* except DatabaseError: self.connection.rollback(); return False.
Rollback(t) ==
    /\ workers[t].pc = "rollback"
    /\ inflight' = CleanTransaction(db)
    /\ workers' = [workers EXCEPT ![t] = Returned(@, FALSE)]
    /\ UNCHANGED db
    /\ SharedFrame

NextShared ==
    \E t \in Threads :
        Call(t) \/ Probe(t) \/ Execute(t) \/ Commit(t) \/ Rollback(t)

SpecShared == InitShared /\ [][NextShared]_vars

(***************************************************************************)
(* The report specification: transactions of two users are recorded over   *)
(* a few months on a healthy store, and /balance and the monthly summary   *)
(* are asked for in between.                                               *)
(***************************************************************************)
\* The transactions table holds at most MaxRecords rows in a run.
MaxRecords == 3

\* The instants at which something happens: Wednesday 2024-01-31 within
\* the last second of the day, Thursday 2024-02-08 at noon, Wednesday
\* 2024-03-20 at noon.
ReportClock == {Instant(30, 4), Instant(38, 2), Instant(79, 2)}

ReportMonths == {1, 2, 3}

HealthyEnv ==
    [probe |-> TRUE, connect |-> "ok", stmt |-> "ok", rollback |-> "ok"]

PyDict(d) == [dict |-> d]

InitReport ==
    /\ user_states = EmptyDict
    /\ db_manager = "DatabaseManager"
    /\ connection = "Connection"
    /\ db = [EmptyDb EXCEPT !.users = {UserRow(u, "ann", "RUB") : u \in Users}]
    /\ buttons = [u \in Users |-> {}]
    /\ lastOp = [op |-> "init", user |-> 0, data |-> NoData,
                 reply |-> [text |-> "none"],
                 raised |-> None, from |-> "no_session",
                 prev |-> [op |-> "init", user |-> 0, from |-> "no_session",
                           reply |-> [text |-> "none"]]]
    /\ workers = [t \in Threads |-> IdleWorker]
    /\ dalOp = NoDalOp
    /\ now = Instant(30, 4)
    /\ inflight = NoTransaction

\* Time passes.
Tick ==
    /\ \E t \in ReportClock : t > now /\ now' = t
    /\ UNCHANGED <<user_states, db_manager, connection, db, buttons, lastOp,
                   workers, dalOp, inflight>>

\* A dialogue ends with add_transaction: an income of 1000 or an expense
\* of 300.
Record ==
    \E u \in Users : \E type \in {"income", "expense"} :
        /\ Len(db.transactions) < MaxRecords
        /\ LET amount == IF type = "income" THEN 1000 ELSE 300
               category == IF type = "income" THEN "Salary" ELSE "Food"
               r == add_transaction(connection, db, u, type, amount,
                                    category, <<"a", "b">>, HealthyEnv)
           IN DalResult("add_transaction",
                        <<u, type, amount, category, <<"a", "b">>>>,
                        [r EXCEPT !.connects = <<r.connects>>,
                                  !.ret = PyBool(@)])

Balance ==
    \E u \in Actors :
        /\ balance_command(u, HealthyEnv)
        /\ UNCHANGED <<workers, now, inflight>>

MonthlySummary ==
    \E u \in Actors : \E month \in ReportMonths :
        LET r == get_monthly_summary(connection, db, u, 2024, month,
                                     HealthyEnv)
        IN DalResult("get_monthly_summary", <<u, 2024, month>>,
                     [r EXCEPT !.connects = <<r.connects>>,
                               !.ret = PyDict(@)])

\* The weeks asked for start on Monday 2024-02-05 and Monday 2024-02-12.
WeekStarts == {Midnight(35), Midnight(42)}

WeeklySummary ==
    \E u \in Actors : \E start_date \in WeekStarts :
        LET r == get_weekly_summary(connection, db, u, start_date, HealthyEnv)
        IN DalResult("get_weekly_summary", <<u, start_date>>,
                     [r EXCEPT !.connects = <<r.connects>>,
                               !.ret = PyDict(@)])

\* The categories of one kind, as the amount step asks for them.
Categories ==
    \E u \in Actors : \E type \in {"income", "expense"} :
        LET r == get_categories(connection, db, u, type, HealthyEnv)
        IN DalResult("get_categories", <<u, type>>,
                     [r EXCEPT !.connects = <<r.connects>>,
                               !.ret = PyList(@)])

NextReport ==
    Tick \/ Record \/ Balance \/ MonthlySummary \/ WeeklySummary
        \/ Categories

SpecReport == InitReport /\ [][NextReport]_vars

(***************************************************************************)
(* The budget specification: on a healthy store user 1 sets limits for     *)
(* Food, transactions of several kinds are recorded on two days, and the   *)
(* limit is checked.                                                       *)
(***************************************************************************)
\* The transactions table holds at most MaxExpenses rows in a run.
MaxExpenses == 3

\* Saturday 2024-02-03 and Thursday 2024-02-08, at noon: both in February,
\* the first before the Monday of the second's week.
BudgetClock == {Instant(33, 2), Instant(38, 2)}

Limits == {500, 600}

\* What is recorded: expenses of 200 for Food by user 1, and rows that
\* differ from those in the kind, the category or the user.
BudgetRecords ==
    {<<1, "expense", "Food">>, <<1, "income", "Food">>,
     <<1, "expense", "Taxi">>, <<2, "expense", "Food">>}

InitBudget ==
    /\ user_states = EmptyDict
    /\ db_manager = "DatabaseManager"
    /\ connection = "Connection"
    /\ db = [EmptyDb EXCEPT !.users = {UserRow(u, "ann", "RUB") : u \in Users}]
    /\ buttons = [u \in Users |-> {}]
    /\ lastOp = [op |-> "init", user |-> 0, data |-> NoData, reply |-> None,
                 raised |-> None, from |-> "no_session",
                 prev |-> [op |-> "init", user |-> 0, from |-> "no_session",
                           reply |-> None]]
    /\ workers = [t \in Threads |-> IdleWorker]
    /\ dalOp = NoDalOp
    /\ now = Instant(33, 2)
    /\ inflight = NoTransaction

BudgetTick ==
    /\ \E t \in BudgetClock : t > now /\ now' = t
    /\ UNCHANGED <<user_states, db_manager, connection, db, buttons, lastOp,
                   workers, dalOp, inflight>>

BudgetRecord ==
    \E rec \in BudgetRecords :
        /\ Len(db.transactions) < MaxExpenses
        /\ LET r == add_transaction(connection, db, rec[1], rec[2], 200,
                                    rec[3], <<"a", "b">>, HealthyEnv)
           IN DalResult("add_transaction",
                        <<rec[1], rec[2], 200, rec[3], <<"a", "b">>>>,
                        [r EXCEPT !.connects = <<r.connects>>,
                                  !.ret = PyBool(@)])

SetLimit ==
    \E limit \in Limits : \E period \in Periods :
        LET r == set_budget(connection, db, 1, "Food", limit, period,
                            HealthyEnv, HealthyEnv)
        IN DalResult("set_budget", <<1, "Food", limit, period>>,
                     [r EXCEPT !.ret = PyBool(@)])

CheckLimit ==
    \E period \in Periods :
        LET r == check_budget_exceeded(connection, db, 1, "Food", period,
                                       HealthyEnv, HealthyEnv)
        IN DalResult("check_budget_exceeded", <<1, "Food", period>>,
                     [r EXCEPT !.ret = PyTuple(@)])

NextBudget == BudgetTick \/ BudgetRecord \/ SetLimit \/ CheckLimit

SpecBudget == InitBudget /\ [][NextBudget]_vars

(***************************************************************************)
(* The two-user specification: the worker threads of the worker-pool       *)
(* specification take the messages and the /cancel commands of two users   *)
(* who both have a dialogue in progress, and interleave between the        *)
(* statements of handle_message and cancel_command.                        *)
(***************************************************************************)
PairTexts == { <<"5">>, <<"a", "b">> }

InitPair ==
    /\ user_states \in {DictSet(DictSet(EmptyDict, 1, d1), 2, d2) :
                          d1 \in ConcSessions, d2 \in ConcSessions}
    /\ db_manager = "DatabaseManager"
    /\ connection = "Connection"
    /\ db = [EmptyDb EXCEPT !.users = RegisteredUsers]
    /\ buttons = [u \in Users |-> {}]
    /\ lastOp = [op |-> "init", user |-> 0, data |-> NoData, reply |-> None,
                 raised |-> None, from |-> "no_session",
                 prev |-> [op |-> "init", user |-> 0, from |-> "no_session",
                           reply |-> None]]
    /\ workers = [t \in Threads |-> IdleWorker]
    /\ dalOp = NoDalOp
    /\ inflight = NoTransaction
    /\ now \in {Instant(day, 2) : day \in ClockDays}

\* A worker takes a text message of either user from the queue.
TakeMessageOf(t) ==
    /\ workers[t].pc = "idle"
    /\ \E u \in Users : \E text \in PairTexts :
         workers' = [workers EXCEPT ![t] =
                       [IdleWorker EXCEPT !.pc = "237", !.user = u,
                                          !.text = text]]
    /\ UNCHANGED <<user_states, db_manager, connection, db, buttons, lastOp,
                   dalOp, now, inflight>>

\* A worker takes a /cancel of either user from the queue.
TakeCancelOf(t) ==
    /\ workers[t].pc = "idle"
    /\ \E u \in Users :
         workers' = [workers EXCEPT ![t] =
                       [IdleWorker EXCEPT !.pc = "80", !.user = u]]
    /\ UNCHANGED <<user_states, db_manager, connection, db, buttons, lastOp,
                   dalOp, now, inflight>>

NextPair ==
    \E t \in Threads :
        \/ TakeMessageOf(t)
        \/ TakeCancelOf(t)
        \/ Line237(t)
        \/ Line241(t)
        \/ Line243(t)
        \/ Line245(t)
        \/ Line246(t)
        \/ Line247(t)
        \/ Line249(t)
        \/ Line261(t)
        \/ Line263(t)
        \/ Line80(t)
        \/ Line81(t)

SpecPair == InitPair /\ [][NextPair]_vars

(***************************************************************************)
(* The two-user dialogue specification: the commands, callbacks and        *)
(* messages of two users are handled one at a time, in any order.          *)
(***************************************************************************)
AddOf ==
    \E u \in Users :
        add_command(u) /\ UNCHANGED <<workers, dalOp, now, inflight>>

CancelOf ==
    \E u \in Users :
        cancel_command(u) /\ UNCHANGED <<workers, dalOp, now, inflight>>

HelpOf ==
    \E u \in Users :
        help_command(u) /\ UNCHANGED <<workers, dalOp, now, inflight>>

CallbackOf ==
    \E u \in Users : \E data \in buttons[u] :
        handle_callback(u, data) /\ UNCHANGED <<workers, dalOp, now, inflight>>

MessageOf ==
    \E u \in Users : \E text \in PairTexts :
        /\ HasRoom(u)
        /\ handle_message(u, text)
        /\ UNCHANGED <<workers, dalOp, now, inflight>>

NextUsers == AddOf \/ CancelOf \/ HelpOf \/ CallbackOf \/ MessageOf

SpecUsers == Init /\ [][NextUsers]_vars

(***************************************************************************)
(* The command specification: the commands that report or explain arrive   *)
(* while a dialogue may be in progress.  Updates are handled one at a      *)
(* time.                                                                   *)
(***************************************************************************)
Help ==
    \E u \in Actors :
        help_command(u) /\ UNCHANGED <<workers, dalOp, now, inflight>>

NextCommands == Next \/ Balance \/ Help

SpecCommands == Init /\ [][NextCommands]_vars

(***************************************************************************)
(* Properties of the dialogue.                                             *)
(***************************************************************************)
\* C1: a category selection is accepted only in waiting_category, so a
\* session in waiting_description holds a kind, an amount and a category.
C1_DescriptionHasKindAmountCategory ==
    \A u \in DOMAIN user_states :
        user_states[u]["state"] = "waiting_description"
            => {"type", "amount", "category"} \subseteq DOMAIN user_states[u]

\* C2: /cancel in any dialogue state removes the session and writes nothing,
\* and the text message that follows it is answered as idle: guidance, no
\* session, nothing written.
C2_CancelThenIdle ==
    [][ \A u \in Users :
          /\ (lastOp'.op = "cancel" /\ lastOp'.user = u)
                => (u \notin DOMAIN user_states' /\ db' = db)
          /\ (lastOp.op = "cancel" /\ lastOp.user = u
              /\ lastOp'.op = "message" /\ lastOp'.user = u)
                => /\ lastOp'.reply = "guidance"
                   /\ lastOp'.raised = None
                   /\ u \notin DOMAIN user_states'
                   /\ user_states' = user_states
                   /\ db' = db ]_vars

\* C2 witness: a text answered with guidance right after a cancel that found
\* the dialogue with its amount captured.
C2_Witness ==
    /\ lastOp.op = "message" /\ lastOp.reply = "guidance"
    /\ lastOp.prev.op = "cancel" /\ lastOp.prev.user = lastOp.user
    /\ lastOp.prev.from = "waiting_category"
    /\ lastOp.user \notin DOMAIN user_states
    /\ db.transactions = <<>>

\* C3: a text that float() rejects in waiting_amount leaves the session and
\* the store as they were, and a valid amount sent next is stored and moves
\* the session on with its kind kept.
C3_InvalidAmountKeepsSession ==
    [][ \A u \in Users :
          /\ (lastOp'.op = "message" /\ lastOp'.user = u
              /\ lastOp'.from = "waiting_amount"
              /\ ~ParseFloat(lastOp'.data).ok)
                => /\ lastOp'.reply = "invalid_amount"
                   /\ user_states' = user_states
                   /\ user_states'[u]["state"] = "waiting_amount"
                   /\ "amount" \notin DOMAIN user_states'[u]
                   /\ db' = db
          /\ (lastOp.reply = "invalid_amount" /\ lastOp.user = u
              /\ lastOp'.op = "message" /\ lastOp'.user = u
              /\ ParseFloat(lastOp'.data).ok)
                => /\ user_states'[u]["state"] = "waiting_category"
                   /\ user_states'[u]["amount"] = ParseFloat(lastOp'.data).value
                   /\ user_states'[u]["type"] = user_states[u]["type"] ]_vars

\* C3 witness: a valid amount accepted right after a rejected one, with the
\* category menu offered.
C3_Witness ==
    /\ lastOp.op = "message" /\ lastOp.from = "waiting_amount"
    /\ lastOp.reply = "choose_category"
    /\ lastOp.prev.op = "message" /\ lastOp.prev.reply = "invalid_amount"
    /\ lastOp.prev.user = lastOp.user
    /\ StateOf(lastOp.user) = "waiting_category"

\* C4: every persisted transaction has amount > 0.
C4_PersistedAmountPositive ==
    \A i \in 1..Len(db.transactions) : db.transactions[i].amount > 0

\* C5: /add, a kind selection, the amount step, a category selection and
\* /cancel leave every table as it was.
C5_OnlyDescriptionStepWrites ==
    [][ (\/ lastOp'.op \in {"add", "cancel", "callback"}
         \/ (lastOp'.op = "message" /\ lastOp'.from # "waiting_description"))
            => db' = db ]_vars

\* C5 witness: the amount step has run with the store reachable and the
\* tables are as they were at the start.
C5_Witness ==
    /\ lastOp.op = "message" /\ lastOp.from = "waiting_amount"
    /\ lastOp.reply = "no_categories"
    /\ StateOf(lastOp.user) = "waiting_category"
    /\ db = [EmptyDb EXCEPT !.users = RegisteredUsers]

\* C6: after a text message handled in waiting_description the user's
\* session no longer exists, in every reachable waiting_description state
\* and whether the write succeeded, reported failure or there was no
\* database manager (a step in which the store's driver raised is left out).
C6_DescriptionStepEndsSession ==
    [][ \A u \in Users :
          (lastOp'.op = "message" /\ lastOp'.user = u
           /\ lastOp'.from = "waiting_description"
           /\ lastOp'.raised # "Error")
             => u \notin DOMAIN user_states' ]_vars

\* C7: a callback for a user without a session creates no session and
\* writes nothing.
C7_StaleCallbackIsNoOp ==
    [][ (lastOp'.op = "callback" /\ lastOp'.from = "no_session")
            => (user_states' = user_states /\ db' = db) ]_vars

\* C8: a text message from a user without a session gets the guidance reply
\* and changes neither the session map nor the store, and raises nothing.
C8_IdleMessageIsGuidance ==
    [][ (lastOp'.op = "message" /\ lastOp'.from = "no_session")
            => /\ lastOp'.reply = "guidance"
               /\ lastOp'.raised = None
               /\ user_states' = user_states
               /\ db' = db
               /\ connection' = connection ]_vars

\* C8 witness: an idle text was answered after a dialogue had been completed.
C8_Witness ==
    /\ lastOp.op = "message" /\ lastOp.from = "no_session"
    /\ lastOp.reply = "guidance"
    /\ lastOp.user \notin DOMAIN user_states
    /\ Len(db.transactions) = 1

(***************************************************************************)
(* Properties of the worker pool.                                          *)
(***************************************************************************)
\* C9: the messages and cancels of one dialogue, handled by different
\* worker threads, persist at most one transaction.
C9_AtMostOneTerminalWrite == Len(db.transactions) <= 1

(***************************************************************************)
(* Properties of the data-access layer.                                    *)
(***************************************************************************)
RECURSIVE SumSeq(_)
SumSeq(seq) == IF seq = <<>> THEN 0 ELSE seq[1] + SumSeq(Tail(seq))

\* C10: every operation, the two-call operations add_user, set_budget and
\* check_budget_exceeded included, makes at most one connect() call in
\* total.
C10_OneReconnectPerOperation == SumSeq(dalOp.connects) <= 1

\* The part of C10 that holds: each execute_query, execute_insert and
\* execute_update call makes at most one connect() call, and an operation
\* makes at most two low-level calls.
OneReconnectPerCall ==
    /\ Len(dalOp.connects) <= 2
    /\ \A i \in 1..Len(dalOp.connects) : dalOp.connects[i] <= 1
    /\ dalOp.op \in {"add_transaction", "get_categories"}
          => Len(dalOp.connects) = 1

\* An add_user whose update and insert each tried to reconnect and failed.
TwoReconnectsInAddUser ==
    /\ dalOp.op = "add_user"
    /\ dalOp.connects = <<1, 1>>
    /\ dalOp.ret = PyBool(FALSE)
    /\ dalOp.raised = None

\* The values with which an operation reports failure: False for a write,
\* an empty result for a read, (False, 0, 0) for check_budget_exceeded.
FailureValues == {PyBool(FALSE), PyList(<<>>), PyTuple(<<FALSE, 0, 0>>)}

\* C11: an operation called without a connection while the store cannot be
\* reached (the handle is still absent afterwards) returns a failure value
\* and leaves the store unchanged.
C11_UnreachableStoreFailsFast ==
    [][(connection = None /\ connection' = None)
          => /\ dalOp'.raised = None
             /\ dalOp'.ret \in FailureValues
             /\ db' = db]_vars

\* The part of C11 that holds: the operation makes no more connect() calls
\* than low-level calls, and leaves the store unchanged.
UnreachableStoreIsBounded ==
    [][(connection = None /\ connection' = None)
          => /\ SumSeq(dalOp'.connects) <= 2
             /\ db' = db]_vars

\* C12: no operation of the DatabaseManager ends with an exception.
C12_NoFaultEscapes == dalOp.raised = None

\* C13: after an add_user that reported success, the users table holds
\* exactly one row for the id, with the name and currency of that call;
\* this covers the second of two calls for the same id.
C13_UpsertKeepsLatest ==
    (dalOp.op = "add_user" /\ dalOp.ret = PyBool(TRUE))
        => {r \in db.users : r.user_id = dalOp.args[1]}
              = {UserRow(dalOp.args[1], dalOp.args[2], dalOp.args[3])}

\* C13 witness: the second add_user for user 1, made with only the UPDATE
\* (the row of the first call was there), has replaced both values.
C13_Witness ==
    /\ dalOp.op = "add_user"
    /\ dalOp.args = <<1, "eve", "USD">>
    /\ Len(dalOp.connects) = 1
    /\ dalOp.ret = PyBool(TRUE)
    /\ db.users = {UserRow(1, "eve", "USD")}

\* What a write that reported success has committed: the row of the call,
\* appended for a transaction, replacing the user's row for add_user,
\* present among the budgets for set_budget.
Committed(op, before, after) ==
    CASE op.op = "add_transaction" ->
            after = [before EXCEPT !.transactions =
                        Append(@, TransactionRow(op.args[1], op.args[2],
                                                 op.args[3], op.args[4],
                                                 op.args[5], now))]
      [] op.op = "add_user" ->
            after = [before EXCEPT !.users =
                        {r \in @ : r.user_id # op.args[1]}
                            \cup {UserRow(op.args[1], op.args[2],
                                          op.args[3])}]
      [] OTHER ->
            /\ [after EXCEPT !.budgets = <<>>]
                  = [before EXCEPT !.budgets = <<>>]
            /\ \E i \in 1..Len(after.budgets) :
                  after.budgets[i] = BudgetRow(op.args[1], op.args[2],
                                               op.args[3], op.args[4])

\* C16: a write of a single caller is all-or-nothing: if it returned True
\* its effect is in the committed store, otherwise the committed store is
\* what it was before the call.
C16_WritesAreAllOrNothing ==
    [][dalOp'.op \in {"add_transaction", "add_user", "set_budget"}
          => IF dalOp'.ret = PyBool(TRUE)
             THEN Committed(dalOp', db, db')
             ELSE db' = db]_vars

\* C16 witness: an add_transaction for a registered user that found the
\* connection healthy and returned False: its INSERT failed with a
\* DatabaseError and was rolled back, and the table is still empty.
C16_Witness ==
    /\ dalOp.op = "add_transaction"
    /\ dalOp.connects = <<0>>
    /\ dalOp.ret = PyBool(FALSE)
    /\ dalOp.raised = None
    /\ \E r \in db.users : r.user_id = dalOp.args[1]
    /\ db.transactions = <<>>

(***************************************************************************)
(* Properties of the shared connection.                                    *)
(***************************************************************************)
Finished(op) ==
    \A t \in Threads : workers[t].pc = "done" /\ workers[t].op = op

\* C14: the users table holds at most one row per user id, and when two
\* concurrent add_user calls have finished and one reported success, the
\* row holds the values of a call that reported success.
C14_OneUserRowOfASuccessfulCall ==
    /\ \A r \in db.users : \A q \in db.users :
          r.user_id = q.user_id => r = q
    /\ (Finished("add_user") /\ \E t \in Threads : workers[t].ret)
          => \E t \in Threads :
                /\ workers[t].ret
                /\ {r \in db.users : r.user_id = workers[t].args[1]}
                      = {UserRow(workers[t].args[1], workers[t].args[2],
                                 workers[t].args[3])}

\* The part of C14 that holds: user_id is a key of users, in the committed
\* content and in what the open transaction sees.
UsersKeyUnique ==
    \A d \in {db, inflight.content} :
        \A r \in d.users : \A q \in d.users : r.user_id = q.user_id => r = q

\* C15: two concurrent set_budget calls for the same (user, category,
\* period) whose updates both affected zero rows both insert: two budgets
\* rows for the one natural key.
C15_ZeroRowUpdatesInsertTwice ==
    (Finished("set_budget") /\ \A t \in Threads : workers[t].affected = 0)
        => /\ Len(db.budgets) = 2
           /\ \A t \in Threads : workers[t].ret
           /\ \A i \in 1..2 :
                 /\ db.budgets[i].user_id = 1
                 /\ db.budgets[i].category = "Food"
                 /\ db.budgets[i].period = "month"

\* C15 witness: both calls are over, both updates matched nothing, and
\* the table holds two rows for (1, Food, month).
C15_Witness ==
    /\ Finished("set_budget")
    /\ \A t \in Threads : workers[t].affected = 0 /\ workers[t].ret
    /\ Len(db.budgets) = 2
    /\ db.budgets[1].period = db.budgets[2].period
    /\ db.budgets[1].limit_amount # db.budgets[2].limit_amount

\* C17: an add_user that returned True has its row in the committed
\* store (rows of users are never deleted).
C17_ReturnedTrueIsCommitted ==
    \A t \in Threads :
        (workers[t].pc = "done" /\ workers[t].op = "add_user"
            /\ workers[t].ret)
            => \E r \in db.users : r.user_id = workers[t].args[1]

(***************************************************************************)
(* Properties of the reports.                                              *)
(***************************************************************************)
\* The sum of the amounts of the rows of one type, row by row.
RECURSIVE SumOfType(_, _)
SumOfType(rows, type) ==
    IF rows = <<>> THEN 0
    ELSE (IF rows[1].type = type THEN rows[1].amount ELSE 0)
            + SumOfType(Tail(rows), type)

\* C18: /balance reports the sums of the income and of the expense amounts
\* of the window get_transactions retrieved and their difference, and the
\* window holds only stored transactions of the asking user.
C18_BalanceOverRetrievedWindow ==
    (dalOp.op = "get_transactions" /\ lastOp.op = "balance")
        => LET window == dalOp.ret.list
               reply == lastOp.reply
           IN /\ \A i \in 1..Len(window) :
                    /\ window[i].user_id = lastOp.user
                    /\ window[i] \in Range(db.transactions)
              /\ reply.income = SumOfType(window, "income")
              /\ reply.expense = SumOfType(window, "expense")
              /\ reply.balance = reply.income - reply.expense

\* C18 witness: user 1 recorded an income of 1000 and an expense of 300,
\* user 2 recorded something too, and /balance of user 1 says 1000, 300,
\* 700.
C18_Witness ==
    /\ dalOp.op = "get_transactions"
    /\ lastOp.op = "balance"
    /\ lastOp.user = 1
    /\ lastOp.reply = [text |-> "Financial Summary", income |-> 1000,
                       expense |-> 300, balance |-> 700]
    /\ \E i \in 1..Len(db.transactions) : db.transactions[i].user_id = 2

\* C19: the window of /balance is the user's BalanceLimit most recent
\* transactions, whatever their age.
C19_WindowIsMostRecentN ==
    dalOp.op = "get_transactions"
        => dalOp.ret.list
              = Take(Reverse(SelectSeq(db.transactions,
                                       LAMBDA r : r.user_id = dalOp.args[1])),
                     BalanceLimit)

\* The days of a month of 2024.
DaysOfMonth(month) ==
    FirstDayOfMonth(month)..(FirstDayOfMonth(month) + MonthLengths[month] - 1)

\* C20: get_monthly_summary returns the sums of the user's income and
\* expense transactions dated within the calendar month, 0 for a type
\* without transactions, and their difference as the balance.
C20_MonthlySummaryCoversMonth ==
    dalOp.op = "get_monthly_summary"
        => LET InMonth(r) ==
                   /\ r.user_id = dalOp.args[1]
                   /\ DayOf(r.date) \in DaysOfMonth(dalOp.args[3])
               ofMonth == SelectSeq(db.transactions, InMonth)
               summary == dalOp.ret.dict
           IN /\ summary.income = SumOfType(ofMonth, "income")
              /\ summary.expense = SumOfType(ofMonth, "expense")
              /\ summary.balance = summary.income - summary.expense

\* The part of C20 that holds: the balance is income - expense, and a
\* month without transactions of the user gives three zeros.
MonthlySummaryDefaults ==
    dalOp.op = "get_monthly_summary"
        => LET summary == dalOp.ret.dict IN
           /\ summary.balance = summary.income - summary.expense
           /\ (\A i \in 1..Len(db.transactions) :
                  \/ db.transactions[i].user_id # dalOp.args[1]
                  \/ DayOf(db.transactions[i].date)
                        \notin DaysOfMonth(dalOp.args[3]))
                 => summary.income = 0 /\ summary.expense = 0
                       /\ summary.balance = 0

\* C21: get_weekly_summary totals the user's transactions dated from
\* start_date through start_date + 6 days 23:59:59, whatever their month.
C21_WeeklySummaryCoversWeek ==
    dalOp.op = "get_weekly_summary"
        => LET InWeek(r) ==
                   /\ r.user_id = dalOp.args[1]
                   /\ r.date >= dalOp.args[2]
                   /\ r.date <= dalOp.args[2] + Instant(6, 3)
               ofWeek == SelectSeq(db.transactions, InWeek)
               summary == dalOp.ret.dict
           IN /\ summary.income = SumOfType(ofWeek, "income")
              /\ summary.expense = SumOfType(ofWeek, "expense")

\* C27: the categories fetched for a user and a kind are exactly those of
\* that kind that are global (no owner) or owned by the user.
C27_GlobalAndOwnCategories ==
    dalOp.op = "get_categories"
        => Range(dalOp.ret.list)
              = {c \in Range(db.categories) :
                    /\ c.type = dalOp.args[2]
                    /\ c.user_id \in {Null, NotNull(dalOp.args[1])}}

\* The part of C27 that holds: nothing of another user or of the other
\* kind is returned.
NoForeignCategories ==
    dalOp.op = "get_categories"
        => \A c \in Range(dalOp.ret.list) :
              c.type = dalOp.args[2] /\ c.user_id = NotNull(dalOp.args[1])

(***************************************************************************)
(* Properties of the budgets.                                              *)
(***************************************************************************)
\* The budgets rows of exactly one (user, category, period).
BudgetsOf(d, user_id, category, period) ==
    SelectSeq(d.budgets,
              LAMBDA b : b.user_id = user_id /\ b.category = category
                            /\ b.period = period)

\* C22: a check for a (user, category, period) without a budgets row
\* returns (False, 0, 0) and does not raise, whatever transactions exist.
C22_NoBudgetGivesZeros ==
    [][(CheckLimit
          /\ BudgetsOf(db, dalOp'.args[1], dalOp'.args[2], dalOp'.args[3])
                = <<>>)
          => /\ dalOp'.ret = PyTuple(<<FALSE, 0, 0>>)
             /\ dalOp'.raised = None]_vars

\* C22 witness: user 1 has a Food expense and a Food budget for the other
\* period, and the check answered (False, 0, 0).
C22_Witness ==
    /\ dalOp.op = "check_budget_exceeded"
    /\ dalOp.ret = PyTuple(<<FALSE, 0, 0>>)
    /\ Len(db.budgets) = 1
    /\ db.budgets[1].period # dalOp.args[3]
    /\ \E i \in 1..Len(db.transactions) :
          db.transactions[i]
              = TransactionRow(1, "expense", 200, "Food", <<"a", "b">>,
                               db.transactions[i].date)

\* Whether a transaction dated t falls in the current period: the month
\* of today, or the days since the last Monday (day 0 is a Monday).
InCurrentPeriod(t, period) ==
    /\ t <= now
    /\ IF period = "month" THEN MonthOf(t) = MonthOf(now)
       ELSE DayOf(now) - DayOf(t) <= DayOf(now) % 7

\* C23: with a budgets row, the check returns (spent > limit, spent,
\* limit), spent being the sum of the user's expenses of the category in
\* the current period.
C23_SpentAgainstLimit ==
    [][(CheckLimit
          /\ BudgetsOf(db, dalOp'.args[1], dalOp'.args[2], dalOp'.args[3])
                # <<>>)
          => LET limit == BudgetsOf(db, dalOp'.args[1], dalOp'.args[2],
                                    dalOp'.args[3])[1].limit_amount
                 Counted(r) ==
                     /\ r.user_id = dalOp'.args[1]
                     /\ r.category = dalOp'.args[2]
                     /\ InCurrentPeriod(r.date, dalOp'.args[3])
                 spent == SumOfType(SelectSeq(db.transactions, Counted),
                                    "expense")
             IN dalOp'.ret = PyTuple(<<spent > limit, spent, limit>>)]_vars

\* C23 witness: a limit of 500 and three expenses of 200: (True, 600, 500).
C23_Witness ==
    /\ dalOp.op = "check_budget_exceeded"
    /\ dalOp.ret = PyTuple(<<TRUE, 600, 500>>)
    /\ Len(db.transactions) = 3

\* A limit of 600 and three expenses of 200: equal, hence not exceeded.
SpentEqualToLimit ==
    /\ dalOp.op = "check_budget_exceeded"
    /\ dalOp.ret = PyTuple(<<FALSE, 600, 600>>)

\* C30: a set_budget leaves every budgets row of another period as it is,
\* and afterwards there is exactly one row for its own (user, category,
\* period).
C30_SetBudgetKeepsOtherPeriods ==
    [][SetLimit
          => /\ \A i \in 1..Len(db.budgets) :
                   db.budgets[i].period # dalOp'.args[4]
                      => db.budgets[i] \in Range(db'.budgets)
             /\ Len(BudgetsOf(db', dalOp'.args[1], dalOp'.args[2],
                              dalOp'.args[4])) = 1]_vars


\* C29: add_user called for a user whose row exists attempts no insert: the
\* update matches that row, so an insert can only follow an update that
\* failed.
C29_NoInsertAfterFailedUpdate ==
    [][(AddUser /\ \E r \in db.users : r.user_id = dalOp'.args[1])
          => Len(dalOp'.connects) = 1]_vars


\* C24: a read made while the store cannot be reached (no connection before
\* the call and none after it) gives the caller the result of a read that
\* matched no rows: get_categories returns an empty list and
\* check_budget_exceeded returns (False, 0, 0), without raising, even
\* though the user's rows exist.
C24_FailedReadLooksEmpty ==
    [][(dalOp'.op \in {"get_categories", "check_budget_exceeded"}
           /\ connection = None /\ connection' = None)
          => /\ dalOp'.raised = None
             /\ dalOp'.ret \in {PyList(<<>>), PyTuple(<<FALSE, 0, 0>>)}]_vars

\* The part of C24 that holds: a read that fails without raising is not
\* told apart from a read that matched nothing.
CaughtReadFailureLooksEmpty ==
    [][(dalOp'.op \in {"get_categories", "check_budget_exceeded"}
           /\ connection = None /\ connection' = None
           /\ dalOp'.raised = None)
          => dalOp'.ret \in {PyList(<<>>), PyTuple(<<FALSE, 0, 0>>)}]_vars


\* A category of the given type that the user owns: a healthy
\* get_categories(user_id, type) returns it.
OwnsCategoryOfType(user_id, type) ==
    \E i \in 1..Len(db.categories) :
        /\ db.categories[i].user_id = {user_id}
        /\ db.categories[i].type = type

\* C26: when a valid amount is entered in 'waiting_amount' and the read of
\* the categories fails (the user owns a category of the chosen type, yet
\* none is offered), the session is still in 'waiting_amount'.
C26_FailedReadKeepsAmountStep ==
    (/\ lastOp.op = "message"
     /\ lastOp.from = "waiting_amount"
     /\ lastOp.reply = "no_categories"
     /\ lastOp.user \in DOMAIN user_states
     /\ OwnsCategoryOfType(lastOp.user,
                           DictGet(user_states[lastOp.user], "type", None)))
        => StateOf(lastOp.user) = "waiting_amount"

\* The part of C26 that holds: the failed step keeps the session and the
\* kind chosen in it.
FailedReadKeepsSessionAndKind ==
    [][(/\ lastOp'.op = "message"
        /\ lastOp'.from = "waiting_amount"
        /\ lastOp'.reply = "no_categories")
          => /\ lastOp'.user \in DOMAIN user_states'
             /\ DictGet(user_states'[lastOp'.user], "type", None)
                  = DictGet(user_states[lastOp'.user], "type", None)]_vars


\* C25: a /balance or /help handled while the user has a dialogue in
\* progress leaves the user's session in place.
C25_CommandsKeepSession ==
    (lastOp.op \in {"balance", "help"} /\ lastOp.from # "no_session")
        => lastOp.user \in DOMAIN user_states

\* A /balance handled in the middle of a dialogue.
BalanceInDialogue ==
    /\ lastOp.op = "balance"
    /\ lastOp.from = "waiting_amount"


\* The users whose update a worker is handling in this step: the worker's
\* pc moves from one statement of a handler to the next.
ActingUsers ==
    {workers[t].user :
        t \in {w \in Threads : /\ workers[w].pc # "idle"
                               /\ workers'[w].pc # workers[w].pc}}

\* The session entry of a user: the dict, or None without one.
SessionOf(states, user_id) == DictGet(states, user_id, EmptyDict)

HandlersDoNotInterfere ==
    [][/\ \A b \in Users \ {lastOp'.user} :
             /\ (b \in DOMAIN user_states') = (b \in DOMAIN user_states)
             /\ SessionOf(user_states', b) = SessionOf(user_states, b)
       /\ \A i \in (Len(db.transactions) + 1)..Len(db'.transactions) :
             db'.transactions[i].user_id = lastOp'.user]_vars

\* Both users are in a dialogue, at different steps.
TwoDialogues ==
    /\ StateOf(1) = "waiting_description"
    /\ StateOf(2) = "waiting_amount"

C31_PersistedCategoryIsLabel ==
    \A i \in 1..Len(db.transactions) :
        \E j \in 1..Len(db.categories) :
            db.categories[j].name = db.transactions[i].category

\* The part of C31 that holds: the persisted row carries what the pressed
\* button carried, the id of an offered category.
PersistedCategoryIsOfferedId ==
    \A i \in 1..Len(db.transactions) :
        CallbackData("cat", db.transactions[i].category)
            \in buttons[db.transactions[i].user_id]


\* The category buttons sent to the user's chat.
CategoryMenu(user_id) == {d \in buttons[user_id] : StartsWith(d, "cat")}

\* C32: a session in 'waiting_category' has been offered at least one
\* category button.
C32_AwaitingCategoryHasMenu ==
    \A u \in Actors :
        StateOf(u) = "waiting_category" => CategoryMenu(u) # {}

\* A session left in 'waiting_category' by an amount step that offered no
\* category.
AwaitingCategoryWithoutMenu ==
    /\ lastOp.op = "message"
    /\ lastOp.reply = "no_categories"
    /\ StateOf(lastOp.user) = "waiting_category"
    /\ CategoryMenu(lastOp.user) = {}

\* From a session in 'waiting_category' without a menu no step leads to
\* 'waiting_description': text is ignored, and only /add or /cancel leave
\* the state.
NoMenuNoDescription ==
    [][\A u \in Actors :
          (StateOf(u) = "waiting_category" /\ CategoryMenu(u) = {})
             => DictGet(DictGet(user_states', u, EmptyDict), "state", None)
                   # "waiting_description"]_vars


\* The months of 2024 whose monthly summary counts the transaction row.
MonthsCounting(row) ==
    {month \in 1..Len(MonthLengths) :
        LET summary ==
                get_monthly_summary(
                    "Connection", [db EXCEPT !.transactions = <<row>>],
                    row.user_id, 2024, month, HealthyEnv).ret
        IN summary.income_count + summary.expense_count = 1}

\* C33: every transaction is counted by the monthly summary of exactly one
\* month.
C33_MonthlyWindowsPartitionTime ==
    \A i \in 1..Len(db.transactions) :
        Cardinality(MonthsCounting(db.transactions[i])) = 1

\* The part of C33 that holds: no transaction is counted by the summaries
\* of two months.
MonthlyWindowsAreDisjoint ==
    \A i \in 1..Len(db.transactions) :
        Cardinality(MonthsCounting(db.transactions[i])) <= 1

\* A transaction dated within the last second of a month, after 23:59:59.
RecordedInLastSecondOfMonth ==
    \E i \in 1..Len(db.transactions) :
        db.transactions[i].date = Instant(30, 4)

====
